---- MODULE Spec2Model ----
(***************************************************************************)
(* Functionary training-data pipeline: label masking, sequence packing and *)
(* the block attention mask (functionary/train/custom_datasets.py).        *)
(*                                                                         *)
(* Three specifications share the variables:                               *)
(*   SpecMask        one call of get_masked_labels, loop step by step;     *)
(*   SpecPipeline    DirectPackedDataset built from prompts, then served;  *)
(*   SpecPackDirect  PackedDataset.pack_data_points called with any data   *)
(*                   points (no truncation before it), then served.        *)
(*                                                                         *)
(* Python lists are modelled as TLA+ sequences.  Python positions are      *)
(* 0-based and are kept 0-based in every index variable and operator       *)
(* argument; At(s, i) reads the Python element s[i].                       *)
(***************************************************************************)
EXTENDS Integers, Sequences, FiniteSets, TLC

(***************************************************************************)
(* Bounds of the model.                                                    *)
(***************************************************************************)
\* longest token sequence handed to get_masked_labels
MaxLen == 6
\* largest tokenizer.model_max_length (the packing capacity)
MaxCapacity == 7
\* most data points handed to one dataset
MaxPoints == 3

(***************************************************************************)
(* Token ids.  The tokenizer is external; the ids are the small stand-ins  *)
(* the model gives to the tokens the code distinguishes.                   *)
(***************************************************************************)
\* the ignore value of a label (labels = [-100 ...])
IGNORE == -100
\* the leading artifact token the tokenizer may put first (token_ids[0] == 29871)
ARTIFACT == 29871
\* tokenizer.pad_token_id
PadTokenId == 0
\* an ordinary content token
TextTok == 1
\* float("-inf"), the m_value merge_data_points passes to the mask builder
NEG_INF == -1
\* the tokenized literal "\nassistant:" that follows the marker in a prefix
AssistantTok == 2

\* EndToken (functionary/prompt.py): the end-of-turn marker kinds, in enum
\* order.  "user" stands for every marker that does not close an assistant
\* span (system, user, function result behave alike in this file).
EndToken == <<"user", "assistant", "function_call">>

\* get_end_token_to_token_id(tokenizer): each marker kind is one token id
endtoken_2_id == [e \in {"user", "assistant", "function_call"} |->
                    CASE e = "user" -> 3
                      [] e = "assistant" -> 4
                      [] e = "function_call" -> 5]

\* the ids a token sequence is made of
Vocab == {TextTok, AssistantTok} \cup {endtoken_2_id[e] : e \in DOMAIN endtoken_2_id}

(***************************************************************************)
(* Python list helpers.                                                    *)
(***************************************************************************)
At(s, i) == s[i + 1]

\* s[a:b] for 0 <= a, with Python's clipping of b
Slice(s, a, b) ==
    LET hi == IF b > Len(s) THEN Len(s) ELSE b
    IN  IF a >= hi THEN <<>> ELSE [k \in 1..(hi - a) |-> s[a + k]]

\* every sequence over S of length 0..n
SeqsUpTo(S, n) == UNION {[1..k -> S] : k \in 0..n}

(***************************************************************************)
(* get_prefix_assistant_token_ids                                          *)
(***************************************************************************)
\* tokenizer.encode(f"{e.value}\nassistant:", add_special_tokens=False)
TokenizerEncodePrefix(e) == <<ARTIFACT, endtoken_2_id[e], AssistantTok>>

\* if token_ids[0] == 29871: token_ids = token_ids[1:]
StripArtifact(token_ids) ==
    IF At(token_ids, 0) = ARTIFACT THEN Tail(token_ids) ELSE token_ids

get_prefix_assistant_token_ids ==
    [k \in 1..Len(EndToken) |-> StripArtifact(TokenizerEncodePrefix(EndToken[k]))]

(***************************************************************************)
(* get_matching_prefix: the position (1-based, in prefix_tokens) of the    *)
(* first prefix that sequence_ids starts with; 0 stands for None.          *)
(***************************************************************************)
StartsWith(sequence_ids, prefix) ==
    /\ Len(sequence_ids) >= Len(prefix)
    /\ Slice(sequence_ids, 0, Len(prefix)) = prefix

get_matching_prefix(prefix_tokens, sequence_ids) ==
    LET hits == {k \in 1..Len(prefix_tokens) : StartsWith(sequence_ids, prefix_tokens[k])}
    IN  IF hits = {} THEN 0
        ELSE CHOOSE k \in hits : \A j \in hits : k <= j

(***************************************************************************)
(* get_masked_labels, one iteration of its while loop at a time.           *)
(***************************************************************************)
\* variant for mutation analysis: the function_call marker does not close a span
IsEndOfTurnAssistantOnly(tok_id) == tok_id = endtoken_2_id["assistant"]

\* tok_id in [endtoken_2_id[EndToken.assistant], endtoken_2_id[EndToken.function_call]]
IsEndOfTurn(tok_id) ==
    tok_id \in {endtoken_2_id["assistant"], endtoken_2_id["function_call"]}

\* variant for mutation analysis: the last closing marker instead of the first
FindLastEndIndex(ids, from) ==
    LET ends == {i \in from..(Len(ids) - 1) : IsEndOfTurn(At(ids, i))}
    IN  IF ends = {} THEN -1
        ELSE CHOOSE i \in ends : \A j \in ends : i >= j

\* the value of end_index after the for loop that starts at `from`:
\* the first closing marker at or after `from`, or -1
FindEndIndex(ids, from) ==
    LET ends == {i \in from..(Len(ids) - 1) : IsEndOfTurn(At(ids, i))}
    IN  IF ends = {} THEN -1
        ELSE CHOOSE i \in ends : \A j \in ends : i <= j

\* variant for mutation analysis: every label of the span gets the span's first token
UnmaskWrongToken(labels, ids, from, to) ==
    [k \in 1..Len(labels) |->
        IF from <= k - 1 /\ k - 1 <= to THEN At(ids, from) ELSE labels[k]]

\* labels[i] = input_token_ids[i] for every i the for loop visits: from..to
Unmask(labels, ids, from, to) ==
    [k \in 1..Len(labels) |->
        IF from <= k - 1 /\ k - 1 <= to THEN ids[k] ELSE labels[k]]

\* variant for mutation analysis: a prefix counts only when a closing marker
\* follows it somewhere in the sequence
MatchedAtClosedOnly(ids, index) ==
    LET hit == get_matching_prefix(get_prefix_assistant_token_ids,
                                   Slice(ids, index, Len(ids)))
    IN  IF hit # 0 /\ FindEndIndex(ids, index + 2) = -1 THEN 0 ELSE hit

\* the matched prefix at `index` (0: None)
MatchedAt(ids, index) ==
    get_matching_prefix(get_prefix_assistant_token_ids, Slice(ids, index, Len(ids)))

\* index + len(matched_prefix)
SpanStart(ids, index) ==
    index + Len(get_prefix_assistant_token_ids[MatchedAt(ids, index)])

(***************************************************************************)
(* get_masked_labels as a function: the same loop, run to its return.      *)
(***************************************************************************)
RECURSIVE ScanFrom(_, _, _)
ScanFrom(ids, lbls, idx) ==
    IF idx >= Len(ids) THEN lbls
    ELSE IF MatchedAt(ids, idx) = 0 THEN ScanFrom(ids, lbls, idx + 1)
    ELSE LET end_index == FindEndIndex(ids, SpanStart(ids, idx))
         IN  IF end_index = -1
             THEN Unmask(lbls, ids, SpanStart(ids, idx), Len(ids) - 1)
             ELSE ScanFrom(ids, Unmask(lbls, ids, SpanStart(ids, idx), end_index),
                           end_index)

get_masked_labels(ids) == ScanFrom(ids, [k \in 1..Len(ids) |-> IGNORE], 0)

(***************************************************************************)
(* prepare_training_inputs_batch with padding="do_not_pad",                *)
(* return_tensor=False: one data point per prompt.                         *)
(***************************************************************************)
\* tokenizer(prompt, max_length=max_length, truncation=True): the token ids
\* of the prompt, cut to max_length
Tokenize(prompt, max_length) == Slice(prompt, 0, max_length)

DataPoint(ids) ==
    [input_ids |-> ids,
     labels |-> get_masked_labels(ids),
     attention_mask |-> [k \in 1..Len(ids) |-> 1]]

prepare_training_inputs_batch(batch, max_length) ==
    [k \in 1..Len(batch) |-> DataPoint(Tokenize(batch[k], max_length))]

(***************************************************************************)
(* is_valid_labels, remove_invalid_label_items                             *)
(***************************************************************************)
\* variant for mutation analysis: no data point is invalid
IsValidAlways(lbls) == TRUE

\* non_mask_count counts the labels != -100; invalid when it is 0.  (For a
\* tensor the code tests sum(labels + 100) == 0; a label is -100 or a token
\* id >= 0, so every term is >= 0 and the sum is 0 exactly when the count is.)
is_valid_labels(lbls) ==
    Cardinality({k \in 1..Len(lbls) : lbls[k] # IGNORE}) # 0

PointIsValid(dp) == is_valid_labels(dp.labels)

remove_invalid_label_items(points) == SelectSeq(points, PointIsValid)

(***************************************************************************)
(* merge_data_points_by_length                                             *)
(***************************************************************************)
RECURSIVE SumSeq(_)
SumSeq(s) == IF s = <<>> THEN 0 ELSE Head(s) + SumSeq(Tail(s))

\* items = [{"length": length, "index": i} for i, length in enumerate(lengths)]
EnumerateItems(lens) == [k \in 1..Len(lens) |-> [length |-> lens[k], index |-> k - 1]]

\* sorted(items, key=lambda x: x["index"]): the indices are distinct, so the
\* k-th item of the result is the one with k-1 smaller indices
SortedByIndex(items) ==
    [k \in 1..Len(items) |->
        LET j == CHOOSE j \in 1..Len(items) :
                    Cardinality({l \in 1..Len(items) :
                                    items[l].index < items[j].index}) = k - 1
        IN  items[j]]

\* variant for mutation analysis: the group may pass the capacity by one
FitsOffByOne(cur_length, current_sum, max_length) ==
    cur_length + current_sum <= max_length + 1

\* variant for mutation analysis: a group must stay below the capacity
FitsStrictly(cur_length, current_sum, max_length) ==
    cur_length + current_sum < max_length

\* cur_length + current_sum <= max_length
Fits(cur_length, current_sum, max_length) ==
    cur_length + current_sum <= max_length

\* the for loop from step i (0-based) on, then the final append
RECURSIVE MergeLoop(_, _, _, _, _, _)
MergeLoop(items, i, merges, current_sum, current_list, max_length) ==
    IF i >= Len(items)
    THEN IF Len(current_list) > 0 THEN Append(merges, current_list) ELSE merges
    ELSE LET cur_length == At(items, i).length
         IN  IF Fits(cur_length, current_sum, max_length)
             THEN MergeLoop(items, i + 1, merges, current_sum + cur_length,
                            Append(current_list, i), max_length)
             ELSE MergeLoop(items, i + 1, Append(merges, current_list),
                            cur_length, <<i>>, max_length)

merge_data_points_by_length(lens, max_length) ==
    LET items == SortedByIndex(EnumerateItems(lens))
        merges == MergeLoop(items, 0, <<>>, 0, <<>>, max_length)
    IN  [g \in 1..Len(merges) |->
            [k \in 1..Len(merges[g]) |-> At(items, merges[g][k]).index]]

(***************************************************************************)
(* get_causal_mask, create_mask_from_lengths.  A mask is a function on the *)
(* pairs <<row, column>> of 0-based positions.                             *)
(***************************************************************************)
Square(n) == (0..(n - 1)) \X (0..(n - 1))

\* variant for mutation analysis: a token does not attend to itself
CausalMaskStrict(length, m_value) ==
    [rc \in Square(length) |-> IF rc[2] < rc[1] THEN 0 ELSE m_value]

\* torch.full((length, length), m_value), then 0 where column < row + 1
get_causal_mask(length, m_value) ==
    [rc \in Square(length) |-> IF rc[2] < rc[1] + 1 THEN 0 ELSE m_value]

\* result[acc: acc + length, acc: acc + length] = x raises (the shapes differ,
\* and a 1 x 1 block alone broadcasts) when the slice is clipped by the size
BlockAssignRaises(acc_leng, length, max_length) ==
    acc_leng + length > max_length /\ length # 1

\* result[acc: acc + length, acc: acc + length] = x
AssignBlock(result, acc_leng, length, x, max_length) ==
    [rc \in Square(max_length) |->
        IF /\ acc_leng <= rc[1] /\ rc[1] < acc_leng + length
           /\ acc_leng <= rc[2] /\ rc[2] < acc_leng + length
        THEN x[<<rc[1] - acc_leng, rc[2] - acc_leng>>]
        ELSE result[rc]]

\* the for loop over lengths from its k-th element on; "raised" once a block
\* assignment raises
RECURSIVE BlockLoop(_, _, _, _, _, _)
BlockLoop(result, lens, k, acc_leng, m_value, max_length) ==
    IF k > Len(lens) THEN [raised |-> FALSE, mask |-> result]
    ELSE IF BlockAssignRaises(acc_leng, lens[k], max_length)
         THEN [raised |-> TRUE, mask |-> result]
         ELSE BlockLoop(AssignBlock(result, acc_leng, lens[k],
                                    get_causal_mask(lens[k], m_value), max_length),
                        lens, k + 1, acc_leng + lens[k], m_value, max_length)

\* variant for mutation analysis: the padding rows and columns are left as built
PadNothing(result, pad_length, m_value, max_length) == result

\* result[-pad_length:, :] = 0, then result[:, -pad_length:] = m_value
PadRowsThenColumns(result, pad_length, m_value, max_length) ==
    [rc \in Square(max_length) |->
        IF rc[2] >= max_length - pad_length THEN m_value
        ELSE IF rc[1] >= max_length - pad_length THEN 0
        ELSE result[rc]]

create_mask_from_lengths(lens, max_length, m_value) ==
    LET blocks == BlockLoop([rc \in Square(max_length) |-> m_value],
                            lens, 1, 0, m_value, max_length)
        pad_length == max_length - SumSeq(lens)
    IN  IF blocks.raised THEN blocks
        ELSE IF pad_length > 0
             THEN [raised |-> FALSE,
                   mask |-> PadRowsThenColumns(blocks.mask, pad_length, m_value,
                                               max_length)]
             ELSE blocks

(***************************************************************************)
(* merge_data_points                                                       *)
(***************************************************************************)
RECURSIVE Flatten(_)
Flatten(ss) == IF ss = <<>> THEN <<>> ELSE Head(ss) \o Flatten(Tail(ss))

Repeat(x, n) == [k \in 1..n |-> x]

\* variant for mutation analysis: the first label of a member is kept
FirstLabelKept(lbls) == lbls

\* labels = list(item["labels"]); labels[0] = -100 (a member of a group is a
\* valid data point, so it has a first label)
FirstLabelIgnored(lbls) == [lbls EXCEPT ![1] = IGNORE]

\* range(pad_leng) is empty for pad_leng <= 0
PadTo(ids, fill, pad_leng, side) ==
    LET n == IF pad_leng > 0 THEN pad_leng ELSE 0
    IN  IF side = "right" THEN ids \o Repeat(fill, n) ELSE Repeat(fill, n) \o ids

NoItem == [status |-> "none", input_ids |-> <<>>, labels |-> <<>>,
           attention_mask |-> <<>>]

Raised(kind) == [status |-> kind, input_ids |-> <<>>, labels |-> <<>>,
                 attention_mask |-> <<>>]

merge_data_points(points, max_length, side) ==
    LET input_ids == Flatten([k \in 1..Len(points) |-> points[k].input_ids])
        label_ids == Flatten([k \in 1..Len(points) |->
                                 FirstLabelIgnored(points[k].labels)])
        lens == [k \in 1..Len(points) |-> Len(points[k].input_ids)]
        built == create_mask_from_lengths(lens, max_length, NEG_INF)
        pad_leng == max_length - Len(input_ids)
        padded_ids == PadTo(input_ids, PadTokenId, pad_leng, side)
        padded_labels == PadTo(label_ids, IGNORE, pad_leng, side)
    IN  IF built.raised THEN Raised("RuntimeError")
        ELSE IF ~(Len(padded_ids) = Len(padded_labels)
                  /\ Len(padded_labels) = max_length)
             THEN Raised("AssertionError")
             ELSE [status |-> "ok", input_ids |-> padded_ids,
                   labels |-> padded_labels, attention_mask |-> built.mask]


(***************************************************************************)
(* PackedDataset                                                           *)
(***************************************************************************)
\* variant for mutation analysis: the groups come out in reverse order
GroupsReversed(lens, max_length) ==
    LET gs == merge_data_points_by_length(lens, max_length)
    IN  [g \in 1..Len(gs) |-> gs[Len(gs) + 1 - g]]

\* self.groups = merge_data_points_by_length(self.lengths, model_max_length)
PackGroups(lens, max_length) == merge_data_points_by_length(lens, max_length)

\* variant for mutation analysis: every data point is packed
ValidPointsUnfiltered(points) == points

\* valid_data_points = remove_invalid_label_items(data_points)
ValidPoints(points) == remove_invalid_label_items(points)

\* pack_data_points: the fields it sets
pack_data_points(points, max_length) ==
    LET valid_data_points == ValidPoints(points)
        lens == [k \in 1..Len(valid_data_points) |->
                    Len(valid_data_points[k].input_ids)]
    IN  [invalid_count |-> Len(points) - Len(valid_data_points),
         lengths |-> lens,
         groups |-> PackGroups(lens, max_length),
         data_points |-> valid_data_points]

\* the prompts a dataset is built from: token sequences of rendered chats
RawPrompts ==
    LET U == endtoken_2_id["user"]
        EA == endtoken_2_id["assistant"]
        EF == endtoken_2_id["function_call"]
        A == AssistantTok
        T == TextTok
    IN  { <<T, U>>,
          <<U, A, EA>>,
          <<U, A, T>>,
          <<U, A, T, EF>>,
          <<T, U, A, T, T, EA>>,
          <<U, A, T, EA, T, U, A, EF>> }

\* the data points a caller may hand to pack_data_points itself: encoded
\* prompts of any length, and records whose labels were made elsewhere
CallerPoints ==
    LET U == endtoken_2_id["user"]
        EA == endtoken_2_id["assistant"]
        EF == endtoken_2_id["function_call"]
        A == AssistantTok
        T == TextTok
    IN  {DataPoint(p) : p \in { <<T, U>>,
                                <<U, A, EA>>,
                                <<U, A, T, EF>>,
                                <<U, A, T, EA, T, U, A, EF>> }}
        \cup {[input_ids |-> <<T>>, labels |-> <<T>>, attention_mask |-> <<1>>],
              [input_ids |-> <<T, A>>, labels |-> <<T, A>>,
               attention_mask |-> <<1, 1>>]}

VARIABLES
    input_token_ids,     \* get_masked_labels: the token sequence
    labels,              \* get_masked_labels: the labels built so far
    index,               \* get_masked_labels: the scan position
    mpc,                 \* get_masked_labels: "scan" in the loop, "returned" after it
    model_max_length,    \* tokenizer.model_max_length
    padding_side,        \* tokenizer.padding_side
    raw_data,            \* DirectPackedDataset: the prompts it is built from
    original_datapoints, \* pack_data_points: its argument
    data_points,         \* PackedDataset.data_points
    lengths,             \* PackedDataset.lengths
    groups,              \* PackedDataset.groups
    invalid_count,       \* pack_data_points: the count it reports
    served,              \* __getitem__: its last argument, -1 before any call
    item,                \* __getitem__: what the last call returned or raised
    ppc,                 \* PackedDataset: "idle", "new" (constructed, empty), "packed"
    disk,                \* the cache folder: whether it exists, inputs.jsonl, meta_info.json
    dumped_from,         \* history: data_points and groups of the dataset that called dump
    dataset_class,       \* the class of the dataset being constructed
    ignore_cached,       \* the constructor's ignore_cached argument
    cache_loaded,        \* whether the constructor called load(folder)
    rebuilt,             \* whether the constructor encoded raw_data
    cpc,                 \* cached construction: "idle", "open", "constructed", "TypeError"
    max_new_tokens,      \* generate_text_stream: its argument
    pending,             \* the text the model has yet to generate, in pieces
    loop_i,              \* generate_text_stream: the iterations of "for i" entered
    out,                 \* generate_text_stream: "unbound" until the first forward pass
    past_key_values,     \* generate_text_stream: "None", "held", "released"
    reach_stop_token,    \* generate_text_stream
    finish_reason,       \* generate_text_stream
    words,               \* generate_text_stream: the text generated so far
    increments,          \* history: the tuples generate_text_stream has yielded
    gpc,                 \* generate_text_stream: where the generator stands
    cur_text,            \* generate_stream
    func_name,           \* generate_stream: <<>> stands for None
    response_type,       \* generate_stream: "None", "text", "function"
    deltas               \* history: the responses generate_stream has yielded

maskVars == <<input_token_ids, labels, index, mpc>>

packVars == <<model_max_length, padding_side, raw_data, original_datapoints,
              data_points, lengths, groups, invalid_count, served, item, ppc>>

cacheVars == <<disk, dumped_from, dataset_class, ignore_cached, cache_loaded, rebuilt, cpc>>

streamVars == <<max_new_tokens, pending, loop_i, out, past_key_values, reach_stop_token,
                finish_reason, words, increments, gpc, cur_text, func_name,
                response_type, deltas>>

vars == <<maskVars, packVars, cacheVars, streamVars>>

\* no dataset in this run
PackIdle ==
    /\ model_max_length = 0
    /\ padding_side = "right"
    /\ raw_data = <<>>
    /\ original_datapoints = <<>>
    /\ data_points = <<>>
    /\ lengths = <<>>
    /\ groups = <<>>
    /\ invalid_count = 0
    /\ served = -1
    /\ item = NoItem
    /\ ppc = "idle"

\* no folder on disk
NoCache == [exists |-> FALSE, inputs |-> <<>>, max_length |-> 0]

\* no dataset has called dump
NotDumped == [data_points |-> <<>>, groups |-> <<>>]

\* no cached_path is given in this run
CacheIdle ==
    /\ disk = NoCache
    /\ dumped_from = NotDumped
    /\ dataset_class = "none"
    /\ ignore_cached = FALSE
    /\ cache_loaded = FALSE
    /\ rebuilt = FALSE
    /\ cpc = "idle"

\* no generation in this run
StreamIdle ==
    /\ max_new_tokens = 0
    /\ pending = <<>>
    /\ loop_i = 0
    /\ out = "unbound"
    /\ past_key_values = "None"
    /\ reach_stop_token = FALSE
    /\ finish_reason = "None"
    /\ words = <<>>
    /\ increments = <<>>
    /\ gpc = "idle"
    /\ cur_text = <<>>
    /\ func_name = <<>>
    /\ response_type = "None"
    /\ deltas = <<>>

\* no get_masked_labels call in this run
MaskIdle ==
    /\ input_token_ids = <<>>
    /\ labels = <<>>
    /\ index = 0
    /\ mpc = "idle"

\* labels = [-100 ...], index = 0, total_input_leng = len(input_token_ids)
MaskInit ==
    /\ input_token_ids \in SeqsUpTo(Vocab, MaxLen)
    /\ labels = [k \in 1..Len(input_token_ids) |-> IGNORE]
    /\ index = 0
    /\ mpc = "scan"
    /\ PackIdle
    /\ CacheIdle
    /\ StreamIdle

\* matched_prefix is None: index += 1
ScanNoMatch ==
    /\ mpc = "scan"
    /\ index < Len(input_token_ids)
    /\ MatchedAt(input_token_ids, index) = 0
    /\ index' = index + 1
    /\ UNCHANGED <<input_token_ids, labels, mpc, packVars, cacheVars, streamVars>>

\* variant for mutation analysis: no break after a truncated span
TruncatedKeepsScanning ==
    /\ mpc = "scan"
    /\ index < Len(input_token_ids)
    /\ MatchedAt(input_token_ids, index) # 0
    /\ FindEndIndex(input_token_ids, SpanStart(input_token_ids, index)) = -1
    /\ labels' = Unmask(labels, input_token_ids,
                        SpanStart(input_token_ids, index), Len(input_token_ids) - 1)
    /\ index' = index + 1
    /\ UNCHANGED <<input_token_ids, mpc, packVars, cacheVars, streamVars>>

\* a prefix matched and a closing marker found: unmask up to it, index = end_index
ScanMatchClosed ==
    /\ mpc = "scan"
    /\ index < Len(input_token_ids)
    /\ MatchedAt(input_token_ids, index) # 0
    /\ LET end_index == FindEndIndex(input_token_ids, SpanStart(input_token_ids, index))
       IN  /\ end_index # -1
           /\ labels' = Unmask(labels, input_token_ids,
                               SpanStart(input_token_ids, index), end_index)
           /\ index' = end_index
    /\ UNCHANGED <<input_token_ids, mpc, packVars, cacheVars, streamVars>>

\* a prefix matched and no closing marker before the end: unmask the tail, break
ScanMatchTruncated ==
    /\ mpc = "scan"
    /\ index < Len(input_token_ids)
    /\ MatchedAt(input_token_ids, index) # 0
    /\ FindEndIndex(input_token_ids, SpanStart(input_token_ids, index)) = -1
    /\ labels' = Unmask(labels, input_token_ids,
                        SpanStart(input_token_ids, index), Len(input_token_ids) - 1)
    /\ mpc' = "returned"
    /\ UNCHANGED <<input_token_ids, index, packVars, cacheVars, streamVars>>

\* the while condition fails: return labels
ScanExit ==
    /\ mpc = "scan"
    /\ index >= Len(input_token_ids)
    /\ mpc' = "returned"
    /\ UNCHANGED <<input_token_ids, labels, index, packVars, cacheVars, streamVars>>

MaskNext ==
    \/ ScanNoMatch
    \/ ScanMatchClosed
    \/ ScanMatchTruncated
    \/ ScanExit

SpecMask == MaskInit /\ [][MaskNext]_vars

(***************************************************************************)
(* The packed dataset: construction, pack_data_points, __getitem__.        *)
(***************************************************************************)
\* a tokenizer and prompts, before DirectPackedDataset(raw_data, tokenizer)
PipelineInit ==
    /\ MaskIdle
    /\ CacheIdle
    /\ StreamIdle
    /\ model_max_length \in 1..MaxCapacity
    /\ padding_side \in {"right", "left"}
    /\ raw_data \in SeqsUpTo(RawPrompts, MaxPoints)
    /\ original_datapoints = <<>>
    /\ data_points = <<>>
    /\ lengths = <<>>
    /\ groups = <<>>
    /\ invalid_count = 0
    /\ served = -1
    /\ item = NoItem
    /\ ppc = "new"

\* PackedDataset(tokenizer): constructed with no cache, nothing packed yet
DirectInit ==
    /\ MaskIdle
    /\ CacheIdle
    /\ StreamIdle
    /\ model_max_length \in 1..MaxCapacity
    /\ padding_side \in {"right", "left"}
    /\ raw_data = <<>>
    /\ original_datapoints = <<>>
    /\ data_points = <<>>
    /\ lengths = <<>>
    /\ groups = <<>>
    /\ invalid_count = 0
    /\ served = -1
    /\ item = NoItem
    /\ ppc = "new"

\* the assignments of pack_data_points(points)
Packed(points) ==
    LET packed == pack_data_points(points, model_max_length)
    IN  /\ original_datapoints' = points
        /\ invalid_count' = packed.invalid_count
        /\ lengths' = packed.lengths
        /\ groups' = packed.groups
        /\ data_points' = packed.data_points
        /\ ppc' = "packed"

\* DirectPackedDataset.__init__ without a cache: encode every prompt (the
\* batches are encoded in order and appended), then pack_data_points
Construct ==
    /\ ppc = "new"
    /\ Packed(prepare_training_inputs_batch(raw_data, model_max_length))
    /\ UNCHANGED <<maskVars, streamVars, cacheVars, model_max_length, padding_side,
                   raw_data, served, item>>

\* a caller's pack_data_points(points) on a PackedDataset
PackDataPoints ==
    /\ ppc = "new"
    /\ \E points \in SeqsUpTo(CallerPoints, MaxPoints) : Packed(points)
    /\ UNCHANGED <<maskVars, streamVars, cacheVars, model_max_length, padding_side,
                   raw_data, served, item>>

\* group = self.groups[i]
GroupAt(gs, i) == At(gs, i)

\* __getitem__(i), i in range(len(self))
GetItem ==
    /\ ppc = "packed"
    /\ \E i \in 0..(Len(groups) - 1) :
          LET group == GroupAt(groups, i)
              group_data_points == [k \in 1..Len(group) |-> At(data_points, group[k])]
          IN  /\ served' = i
              /\ item' = merge_data_points(group_data_points, model_max_length,
                                           padding_side)
    /\ UNCHANGED <<maskVars, streamVars, cacheVars, model_max_length, padding_side, raw_data,
                   original_datapoints, data_points, lengths, groups,
                   invalid_count, ppc>>

PipelineNext ==
    \/ Construct
    \/ GetItem

DirectNext ==
    \/ PackDataPoints
    \/ GetItem

SpecPipeline == PipelineInit /\ [][PipelineNext]_vars

SpecPackDirect == DirectInit /\ [][DirectNext]_vars

(***************************************************************************)
(* merge_data_points_by_length on its own: any lengths, any capacity.      *)
(***************************************************************************)
\* bound: the number of lengths handed to the packer
MaxItems == 4

\* bound: the largest capacity handed to the packer
MaxPackCapacity == 10

\* the lengths handed to the packer
ItemLengths == {1, 2, 5, 7}

\* lengths and max_length, before merge_data_points_by_length(lengths, max_length)
PackerInit ==
    /\ MaskIdle
    /\ CacheIdle
    /\ StreamIdle
    /\ model_max_length \in 1..MaxPackCapacity
    /\ padding_side = "right"
    /\ raw_data = <<>>
    /\ original_datapoints = <<>>
    /\ data_points = <<>>
    /\ lengths \in SeqsUpTo(ItemLengths, MaxItems)
    /\ groups = <<>>
    /\ invalid_count = 0
    /\ served = -1
    /\ item = NoItem
    /\ ppc = "lengths"

\* groups = merge_data_points_by_length(lengths, max_length)
MergeByLength ==
    /\ ppc = "lengths"
    /\ groups' = merge_data_points_by_length(lengths, model_max_length)
    /\ ppc' = "merged"
    /\ UNCHANGED <<maskVars, streamVars, cacheVars, model_max_length, padding_side,
                   raw_data, original_datapoints, data_points, lengths,
                   invalid_count, served, item>>

PackerNext == MergeByLength

SpecPacker == PackerInit /\ [][PackerNext]_vars

(***************************************************************************)
(* The dataset cache: a folder with inputs.jsonl and its max_length record, *)
(* written by dump and read by the constructors given a cached_path.       *)
(***************************************************************************)
\* bound: the number of prompts of a dataset that is cached
MaxCached == 2

\* the prompts of a dataset that is cached
CachePrompts ==
    LET U == endtoken_2_id["user"]
        EA == endtoken_2_id["assistant"]
        EF == endtoken_2_id["function_call"]
        A == AssistantTok
        T == TextTok
    IN  { <<T, U>>,
          <<U, A, EA>>,
          <<U, A, T, EF>>,
          <<T, U, A, T, T, EA>> }

DatasetClasses == {"CachedDataset", "CustomDataset", "PackedDataset", "DirectPackedDataset"}

\* variant for mutation analysis: every cache is taken as loadable
IsLoadableAlways(cached_max_length, max_length) == TRUE

\* cached_max_length >= self.tokenizer.model_max_length
is_loadable_cached(cached_max_length, max_length) == cached_max_length >= max_length

\* variant for mutation analysis: a loaded record is not cut
TruncateNothing(it, max_length) == it

\* item[key] = torch.tensor(item[key][: model_max_length]) for every key
TruncateItem(it, max_length) ==
    [key \in DOMAIN it |-> Slice(it[key], 0, max_length)]

\* the records PackedDataset.load reads, in file order
LoadItems(inputs, max_length) ==
    [k \in 1..Len(inputs) |-> TruncateItem(inputs[k], max_length)]

\* variant for mutation analysis: the lines are written last record first
DumpedReversed(points, max_length) ==
    [exists |-> TRUE,
     inputs |-> [k \in 1..Len(points) |-> points[Len(points) + 1 - k]],
     max_length |-> max_length]

\* PackedDataset.dump: one line per data point, and {"max_length": ...}
DumpedFolder(points, max_length) ==
    [exists |-> TRUE, inputs |-> points, max_length |-> max_length]

\* cached_path is not None and inputs.jsonl exists and not ignore_cached
CachedFound == disk.exists /\ ~ignore_cached

\* PackedDataset.__init__ calls self.load(cached_path)
LoadsCache == CachedFound /\ is_loadable_cached(disk.max_length, model_max_length)

\* nothing cached, and a dataset about to be constructed over cached_path
CacheInit ==
    /\ MaskIdle
    /\ model_max_length \in 1..MaxCapacity
    /\ padding_side = "right"
    /\ raw_data \in SeqsUpTo(CachePrompts, MaxCached)
    /\ original_datapoints = <<>>
    /\ data_points = <<>>
    /\ lengths = <<>>
    /\ groups = <<>>
    /\ invalid_count = 0
    /\ served = -1
    /\ item = NoItem
    /\ ppc = "new"
    /\ disk = NoCache
    /\ dumped_from = NotDumped
    /\ dataset_class \in DatasetClasses
    /\ ignore_cached \in BOOLEAN
    /\ cache_loaded = FALSE
    /\ rebuilt = FALSE
    /\ cpc = "open"
    /\ StreamIdle

\* PackedDataset(tokenizer, cached_path, ignore_cached): load when the cache
\* is found and loadable, else stay empty
PackedInit ==
    /\ cpc = "open"
    /\ dataset_class = "PackedDataset"
    /\ IF LoadsCache
       THEN Packed(LoadItems(disk.inputs, model_max_length))
       ELSE UNCHANGED <<original_datapoints, invalid_count, lengths, groups,
                        data_points, ppc>>
    /\ cache_loaded' = LoadsCache
    /\ cpc' = "constructed"
    /\ UNCHANGED <<maskVars, streamVars, model_max_length, padding_side, raw_data, served,
                   item, disk, dumped_from, dataset_class, ignore_cached, rebuilt>>

\* variant for mutation analysis: the rebuilt dataset is dumped whether or not
\* the folder exists
DirectPackedDumpsAlways ==
    /\ cpc = "open"
    /\ dataset_class = "DirectPackedDataset"
    /\ LET from_cache == LoadItems(disk.inputs, model_max_length)
           loaded == pack_data_points(from_cache, model_max_length)
           rebuilds == ~LoadsCache \/ Len(loaded.data_points) = 0
           encoded == prepare_training_inputs_batch(raw_data, model_max_length)
           packed == pack_data_points(encoded, model_max_length)
       IN  /\ Packed(IF rebuilds THEN encoded ELSE from_cache)
           /\ rebuilt' = rebuilds
           /\ disk' = IF rebuilds
                      THEN DumpedFolder(packed.data_points, model_max_length)
                      ELSE disk
           /\ dumped_from' = IF rebuilds
                             THEN [data_points |-> packed.data_points,
                                   groups |-> packed.groups]
                             ELSE dumped_from
    /\ cache_loaded' = LoadsCache
    /\ cpc' = "constructed"
    /\ UNCHANGED <<maskVars, streamVars, model_max_length, padding_side, raw_data, served,
                   item, dataset_class, ignore_cached>>

\* DirectPackedDataset(raw_data, tokenizer, cached_path, ignore_cached): the
\* PackedDataset constructor, then, when it left no data point, encode
\* raw_data, pack, and dump if the folder does not exist
DirectPackedInit ==
    /\ cpc = "open"
    /\ dataset_class = "DirectPackedDataset"
    /\ LET from_cache == LoadItems(disk.inputs, model_max_length)
           loaded == pack_data_points(from_cache, model_max_length)
           rebuilds == ~LoadsCache \/ Len(loaded.data_points) = 0
           encoded == prepare_training_inputs_batch(raw_data, model_max_length)
           packed == pack_data_points(encoded, model_max_length)
       IN  /\ Packed(IF rebuilds THEN encoded ELSE from_cache)
           /\ rebuilt' = rebuilds
           /\ disk' = IF rebuilds /\ ~disk.exists
                      THEN DumpedFolder(packed.data_points, model_max_length)
                      ELSE disk
           /\ dumped_from' = IF rebuilds /\ ~disk.exists
                             THEN [data_points |-> packed.data_points,
                                   groups |-> packed.groups]
                             ELSE dumped_from
    /\ cache_loaded' = LoadsCache
    /\ cpc' = "constructed"
    /\ UNCHANGED <<maskVars, streamVars, model_max_length, padding_side, raw_data, served,
                   item, dataset_class, ignore_cached>>

\* CachedDataset(tokenizer, cached_folder, ignore_cached): load whenever
\* inputs.jsonl exists; load appends every record as it is
CachedInit ==
    /\ cpc = "open"
    /\ dataset_class = "CachedDataset"
    /\ data_points' = IF CachedFound THEN data_points \o disk.inputs ELSE data_points
    /\ cache_loaded' = CachedFound
    /\ cpc' = "constructed"
    /\ UNCHANGED <<maskVars, streamVars, model_max_length, padding_side, raw_data,
                   original_datapoints, lengths, groups, invalid_count, served,
                   item, ppc, disk, dumped_from, dataset_class, ignore_cached,
                   rebuilt>>

\* CustomDataset(raw_data, tokenizer, ...): super(self) is given the instance,
\* not a type, and raises TypeError before anything is read
CustomInit ==
    /\ cpc = "open"
    /\ dataset_class = "CustomDataset"
    /\ cpc' = "TypeError"
    /\ UNCHANGED <<maskVars, streamVars, packVars, disk, dumped_from, dataset_class,
                   ignore_cached, cache_loaded, rebuilt>>

\* a later run constructs a fresh dataset over the same folder and raw data,
\* with its own tokenizer limit
NewDataset ==
    /\ cpc \in {"constructed", "TypeError"}
    /\ model_max_length' \in 1..MaxCapacity
    /\ dataset_class' \in DatasetClasses
    /\ ignore_cached' \in BOOLEAN
    /\ original_datapoints' = <<>>
    /\ data_points' = <<>>
    /\ lengths' = <<>>
    /\ groups' = <<>>
    /\ invalid_count' = 0
    /\ ppc' = "new"
    /\ cache_loaded' = FALSE
    /\ rebuilt' = FALSE
    /\ cpc' = "open"
    /\ UNCHANGED <<maskVars, streamVars, padding_side, raw_data, served, item, disk,
                   dumped_from>>

CacheNext ==
    \/ PackedInit
    \/ DirectPackedInit
    \/ CachedInit
    \/ CustomInit
    \/ NewDataset

SpecCache == CacheInit /\ [][CacheNext]_vars

(***************************************************************************)
(* Text: a Python str is a sequence of one-character strings.              *)
(***************************************************************************)
\* the whitespace characters of the texts used here
IsSpace(c) == c \in {" ", "\n"}

RECURSIVE lstrip(_)
lstrip(s) == IF s # <<>> /\ IsSpace(Head(s)) THEN lstrip(Tail(s)) ELSE s

RECURSIVE rstrip(_)
rstrip(s) ==
    IF s # <<>> /\ IsSpace(s[Len(s)]) THEN rstrip(SubSeq(s, 1, Len(s) - 1)) ELSE s

strip(s) == rstrip(lstrip(s))

\* ":\n"
SeparatorText == <<":", "\n">>

\* the literal part of r"to=functions\.(?P<f>.+?):"
FunctionsLiteral == <<"t", "o", "=", "f", "u", "n", "c", "t", "i", "o", "n", "s", ".">>

\* the literal stands at position p (1-based) of text
LiteralAt(text, p) ==
    /\ p + Len(FunctionsLiteral) - 1 <= Len(text)
    /\ SubSeq(text, p, p + Len(FunctionsLiteral) - 1) = FunctionsLiteral

\* the positions of a ":" that can close the group f of a match starting at
\* p: at least one character after the literal, none of them a newline
ClosingColons(text, p) ==
    LET first == p + Len(FunctionsLiteral)
    IN  {c \in (first + 1)..Len(text) :
            /\ text[c] = ":"
            /\ \A q \in first..(c - 1) : text[q] # "\n"}

\* the start positions at which the pattern matches
MatchStarts(text) ==
    {p \in 1..Len(text) : LiteralAt(text, p) /\ ClosingColons(text, p) # {}}

Least(S) == CHOOSE x \in S : \A y \in S : x <= y

\* re.search(...).group("f"): the leftmost match, its group as short as can be
GroupF(text) ==
    LET p == Least(MatchStarts(text))
    IN  SubSeq(text, p + Len(FunctionsLiteral), Least(ClosingColons(text, p)) - 1)

(***************************************************************************)
(* generate_stream: the responses it yields                                *)
(***************************************************************************)
Str(s) == [tag |-> "str", val |-> s]

NoneValue == [tag |-> "None", val |-> <<>>]

\* the key is not in the dict
Absent == [tag |-> "absent", val |-> <<>>]

NoCall == [present |-> FALSE, name |-> <<>>, arguments |-> <<>>]

Call(name, arguments) == [present |-> TRUE, name |-> name, arguments |-> arguments]

Response(content, function_call, reason) ==
    [role |-> "assistant", content |-> content, function_call |-> function_call,
     finish_reason |-> reason]

OpenText == Response(Str(<<>>), NoCall, "None")

OpenFunction(name) == Response(NoneValue, Call(name, <<>>), "None")

ArgumentsDelta(text, name) == Response(Absent, Call(name, text), "None")

\* variant for mutation analysis: the close of a function call passes "stop" on
CloseFunctionAsStop == Response(Absent, NoCall, "stop")

CloseFunction == Response(Absent, NoCall, "function_call")

\* variant for mutation analysis: a content delta without the text
TextDeltaEmpty(text) == Response(Str(<<>>), NoCall, "None")

TextDelta(text) == Response(Str(text), NoCall, "None")

CloseText(reason) == Response(Absent, NoCall, reason)

\* variant for mutation analysis: the separator is looked for in the text as
\* it is, leading whitespace included
SeparatorUntrimmed(text) == text = SeparatorText

\* variant for mutation analysis: the left-trimmed text only has to begin
\* with the separator
SeparatorPrefix(text) ==
    /\ Len(lstrip(text)) >= Len(SeparatorText)
    /\ SubSeq(lstrip(text), 1, Len(SeparatorText)) = SeparatorText

\* cur_text.lstrip() == ":\n"
IsSeparator(text) == lstrip(text) = SeparatorText

\* variant for mutation analysis: the name is the group as matched
NameUntrimmed(text) == GroupF(strip(text))

\* match.group("f").strip()
MatchedName(text) == strip(GroupF(strip(text)))

\* variant for mutation analysis: while response_type is None and nothing
\* matches, the text is passed on as a content delta
ClassifyPassingThrough(rtype, fname, text, piece, reason) ==
    IF rtype = "None"
    THEN IF IsSeparator(text)
         THEN [response_type |-> "text", func_name |-> fname,
               yielded |-> <<OpenText>>]
         ELSE IF MatchStarts(strip(text)) # {}
              THEN [response_type |-> "function", func_name |-> MatchedName(text),
                    yielded |-> <<OpenFunction(MatchedName(text))>>]
              ELSE [response_type |-> rtype, func_name |-> fname,
                    yielded |-> <<TextDelta(piece)>>]
    ELSE IF rtype = "function"
         THEN [response_type |-> rtype, func_name |-> fname,
               yielded |-> IF reason = "None"
                           THEN <<ArgumentsDelta(piece, fname)>>
                           ELSE <<CloseFunction>>]
         ELSE [response_type |-> rtype, func_name |-> fname,
               yielded |-> IF reason = "None"
                           THEN <<TextDelta(piece)>>
                           ELSE <<CloseText(reason)>>]

\* one pass of the body of "for item, finish_reason in generator", cur_text
\* already extended: the new response_type and func_name, and what is yielded
Classify(rtype, fname, text, piece, reason) ==
    IF rtype = "None"
    THEN IF IsSeparator(text)
         THEN [response_type |-> "text", func_name |-> fname,
               yielded |-> <<OpenText>>]
         ELSE IF MatchStarts(strip(text)) # {}
              THEN [response_type |-> "function", func_name |-> MatchedName(text),
                    yielded |-> <<OpenFunction(MatchedName(text))>>]
              ELSE [response_type |-> rtype, func_name |-> fname, yielded |-> <<>>]
    ELSE IF rtype = "function"
         THEN [response_type |-> rtype, func_name |-> fname,
               yielded |-> IF reason = "None"
                           THEN <<ArgumentsDelta(piece, fname)>>
                           ELSE <<CloseFunction>>]
         ELSE [response_type |-> rtype, func_name |-> fname,
               yielded |-> IF reason = "None"
                           THEN <<TextDelta(piece)>>
                           ELSE <<CloseText(reason)>>]

(***************************************************************************)
(* generate_text_stream, consumed by generate_stream                       *)
(***************************************************************************)
\* bound: the largest max_new_tokens
MaxNewTokens == 5

\* the texts the model may generate, in the pieces its tokens decode to
GeneratedTexts ==
    LET to == <<"t", "o", "=">>
        functions == <<"f", "u", "n", "c", "t", "i", "o", "n", "s", ".">>
        get == <<"g", "e", "t">>
        weather == <<"_", "w", "e", "a", "t", "h", "e", "r">>
        city == <<"{", "\"", "c", "i", "t", "y", "\"", ":">>
        nyc == <<"\"", "N", "Y", "C", "\"", "}">>
        hello == <<"h", "e", "l", "l", "o">>
        world == <<" ", "w", "o", "r", "l", "d">>
    IN  { <<<<":">>, <<"\n">>, hello, world>>,
          <<to, functions, get, weather, <<":">>, <<"\n">>, city, nyc>>,
          <<<<" ">>, <<":">>, <<"\n">>, hello>>,
          <<hello, <<":">>, <<"\n">>>>,
          <<<<" ">>, to \o functions, <<" ">>, get, <<" ">>, <<":">>, <<"{">>, <<"}">>>> }

\* a generator just created: nothing of its body has run
StreamInit ==
    /\ MaskIdle
    /\ PackIdle
    /\ CacheIdle
    /\ max_new_tokens \in 0..MaxNewTokens
    /\ pending \in GeneratedTexts
    /\ loop_i = 0
    /\ out = "unbound"
    /\ past_key_values = "None"
    /\ reach_stop_token = FALSE
    /\ finish_reason = "None"
    /\ words = <<>>
    /\ increments = <<>>
    /\ gpc = "created"
    /\ cur_text = <<>>
    /\ func_name = <<>>
    /\ response_type = "None"
    /\ deltas = <<>>

\* generate_stream receives (piece, reason) from the generator
Consume(piece, reason) ==
    LET text == cur_text \o piece
        result == Classify(response_type, func_name, text, piece, reason)
    IN  /\ cur_text' = text
        /\ response_type' = result.response_type
        /\ func_name' = result.func_name
        /\ deltas' = deltas \o result.yielded
        /\ increments' = Append(increments, [text |-> piece, finish_reason |-> reason])

\* the generator runs on into the loop
InLoop == gpc \in {"created", "yielded"}

\* an iteration whose token is not a stop token: forward pass, decode the
\* next k pieces of text, yield (output, finish_reason)
DecodeYield ==
    /\ InLoop
    /\ loop_i < max_new_tokens
    /\ \E k \in 0..Len(pending) :
          LET output == Flatten(SubSeq(pending, 1, k))
          IN  /\ pending' = SubSeq(pending, k + 1, Len(pending))
              /\ words' = words \o output
              /\ Consume(output, finish_reason)
    /\ loop_i' = loop_i + 1
    /\ out' = "bound"
    /\ past_key_values' = "held"
    /\ gpc' = "yielded"
    /\ UNCHANGED <<maskVars, packVars, cacheVars, max_new_tokens,
                   reach_stop_token, finish_reason>>

\* lines 194-197
FinalReason(stopped) == IF stopped THEN "stop" ELSE "lenghth"

\* an iteration whose token is a stop token: break, then yield ("", "stop")
DecodeStop ==
    /\ InLoop
    /\ loop_i < max_new_tokens
    /\ loop_i' = loop_i + 1
    /\ out' = "bound"
    /\ past_key_values' = "held"
    /\ reach_stop_token' = TRUE
    /\ finish_reason' = FinalReason(TRUE)
    /\ Consume(<<>>, FinalReason(TRUE))
    /\ gpc' = "final"
    /\ UNCHANGED <<maskVars, packVars, cacheVars, max_new_tokens, pending, words>>

\* range(max_new_tokens) is used up: yield ("", finish_reason)
LoopExhausted ==
    /\ InLoop
    /\ loop_i >= max_new_tokens
    /\ finish_reason' = FinalReason(reach_stop_token)
    /\ Consume(<<>>, FinalReason(reach_stop_token))
    /\ gpc' = "final"
    /\ UNCHANGED <<maskVars, packVars, cacheVars, max_new_tokens, pending, loop_i,
                   out, past_key_values, reach_stop_token, words>>

\* the consumer asks for the element after the final one: del
\* past_key_values, out; gc.collect(); torch.cuda.empty_cache(); return.
\* With out never assigned the del statement raises UnboundLocalError.
CleanAndReturn ==
    /\ gpc = "final"
    /\ IF out = "unbound"
       THEN /\ gpc' = "UnboundLocalError"
            /\ UNCHANGED past_key_values
       ELSE /\ gpc' = "returned"
            /\ past_key_values' = "released"
    /\ UNCHANGED <<maskVars, packVars, cacheVars, max_new_tokens, pending, loop_i,
                   out, reach_stop_token, finish_reason, words, increments,
                   cur_text, func_name, response_type, deltas>>

\* the consumer stops asking for elements: the generator stays suspended at
\* its yield and nothing after it runs (when the generator is closed or
\* collected, GeneratorExit is raised at that yield and the statements after
\* it are skipped as well)
ConsumerStops ==
    /\ gpc \in {"yielded", "final"}
    /\ gpc' = "abandoned"
    /\ UNCHANGED <<maskVars, packVars, cacheVars, max_new_tokens, pending, loop_i,
                   out, past_key_values, reach_stop_token, finish_reason, words,
                   increments, cur_text, func_name, response_type, deltas>>

StreamNext ==
    \/ DecodeYield
    \/ DecodeStop
    \/ LoopExhausted
    \/ CleanAndReturn
    \/ ConsumerStops

SpecStream == StreamInit /\ [][StreamNext]_vars

(***************************************************************************)
(* Properties of get_masked_labels.                                        *)
(***************************************************************************)
\* the loop run step by step returns what get_masked_labels computes
MaskRunMatchesFunction ==
    mpc = "returned" => labels = get_masked_labels(input_token_ids)

Positions(ids) == 0..(Len(ids) - 1)

IsEndTokenId(tok_id) == \E e \in DOMAIN endtoken_2_id : tok_id = endtoken_2_id[e]

\* the markers that end an assistant turn
ClosesAssistantTurn(tok_id) ==
    \/ tok_id = endtoken_2_id["assistant"]
    \/ tok_id = endtoken_2_id["function_call"]

\* a prefix pattern "<marker>\nassistant:" of some marker kind lies at s..s+1
PrefixOccursAt(ids, s) ==
    /\ s + 1 <= Len(ids) - 1
    /\ IsEndTokenId(At(ids, s))
    /\ At(ids, s + 1) = AssistantTok

\* p lies after the last token of a prefix at s and no closing marker lies
\* strictly between that prefix and p
InAssistantSpan(ids, p) ==
    \E s \in 0..p :
        /\ PrefixOccursAt(ids, s)
        /\ s + 2 <= p
        /\ \A i \in (s + 2)..(p - 1) : ~ClosesAssistantTurn(At(ids, i))

\* the first marker of any kind at or after p, or -1
NextMarker(ids, p) ==
    LET ms == {i \in p..(Len(ids) - 1) : IsEndTokenId(At(ids, i))}
    IN  IF ms = {} THEN -1 ELSE CHOOSE i \in ms : \A j \in ms : i <= j

\* the first position of the turn p lies in: just after the previous marker
TurnStart(ids, p) ==
    LET ms == {i \in 0..(p - 1) : IsEndTokenId(At(ids, i))}
    IN  IF ms = {} THEN 0 ELSE 1 + (CHOOSE i \in ms : \A j \in ms : j <= i)

\* the prompt renderer closes every assistant turn with an assistant or
\* function_call marker; truncation may cut the last turn
Rendered(ids) ==
    \A s \in Positions(ids) :
        PrefixOccursAt(ids, s) =>
            LET b == NextMarker(ids, s + 2)
            IN  b = -1 \/ ClosesAssistantTurn(At(ids, b))

\* p lies in a turn that ends with a user/system/function-result marker and
\* does not open with the assistant header
InNonAssistantTurn(ids, p) ==
    LET a == TurnStart(ids, p)
        b == NextMarker(ids, p)
    IN  /\ b # -1
        /\ ~ClosesAssistantTurn(At(ids, b))
        /\ ~(a >= 1 /\ PrefixOccursAt(ids, a - 1))

\* C1: the returned labels are as long as the tokens, and every label that is
\* not the sentinel -100 equals the token id at its position.
C1_LabelsAlignWithTokens ==
    mpc = "returned" =>
        /\ Len(labels) = Len(input_token_ids)
        /\ \A p \in Positions(input_token_ids) :
              At(labels, p) # IGNORE => At(labels, p) = At(input_token_ids, p)

C1_Witness ==
    /\ mpc = "returned"
    /\ \E p, q \in Positions(input_token_ids) :
          /\ At(labels, p) = IGNORE
          /\ At(labels, q) = At(input_token_ids, q)
          /\ At(input_token_ids, q) # At(input_token_ids, SpanStart(input_token_ids, 0))

\* C2: in the returned labels a position is unmasked exactly when it lies after
\* the last token of an assistant prefix and at or before the next
\* end-of-assistant / end-of-function-call marker; so every position before the
\* first prefix, and (in a rendered conversation) every position of a user,
\* system or function-result turn, holds the sentinel.
C2_UnmaskedExactlyAssistantSpans ==
    mpc = "returned" =>
        /\ \A p \in Positions(input_token_ids) :
              (At(labels, p) # IGNORE) <=> InAssistantSpan(input_token_ids, p)
        /\ \A p \in Positions(input_token_ids) :
              (\A s \in 0..p : ~PrefixOccursAt(input_token_ids, s))
                  => At(labels, p) = IGNORE
        /\ Rendered(input_token_ids) =>
              \A p \in Positions(input_token_ids) :
                  InNonAssistantTurn(input_token_ids, p) => At(labels, p) = IGNORE

\* two assistant spans with a user turn between them, all scanned
C2_Witness ==
    /\ mpc = "returned"
    /\ Rendered(input_token_ids)
    /\ \E p, q, r \in Positions(input_token_ids) :
          /\ p < q /\ q < r
          /\ At(labels, p) # IGNORE
          /\ ClosesAssistantTurn(At(input_token_ids, p))
          /\ InNonAssistantTurn(input_token_ids, q)
          /\ At(labels, q) = IGNORE
          /\ At(labels, r) # IGNORE

\* the loop is at a matched prefix whose span no marker closes
AtTruncatedSpan ==
    /\ mpc = "scan"
    /\ index < Len(input_token_ids)
    /\ MatchedAt(input_token_ids, index) # 0
    /\ \A i \in SpanStart(input_token_ids, index)..(Len(input_token_ids) - 1) :
          ~ClosesAssistantTurn(At(input_token_ids, i))

\* C3: when a prefix is matched and no closing marker follows, the step unmasks
\* every position from the end of the prefix to the end of the sequence, leaves
\* the other labels alone, and returns: the scan does not go on.
C3_TruncatedSpanUnmaskedThenStop ==
    [][AtTruncatedSpan =>
          /\ mpc' = "returned"
          /\ \A p \in Positions(input_token_ids) :
                At(labels', p) = IF p >= SpanStart(input_token_ids, index)
                                 THEN At(input_token_ids, p)
                                 ELSE At(labels, p)]_vars

\* returned by the break, with an earlier closed span and a non-empty tail
C3_Witness ==
    /\ mpc = "returned"
    /\ index < Len(input_token_ids)
    /\ index > 0
    /\ At(labels, index) # IGNORE
    /\ At(labels, Len(input_token_ids) - 1) # IGNORE
    /\ SpanStart(input_token_ids, index) <= Len(input_token_ids) - 1

(***************************************************************************)
(* Properties of the packed dataset.                                       *)
(***************************************************************************)
\* the lengths of the members of a group, in group order
MemberLengths(group) == [k \in 1..Len(group) |-> At(lengths, group[k])]

GroupSum(group) == SumSeq(MemberLengths(group))

\* the group the last __getitem__ call was asked for
ServedGroup == At(groups, served)

ItemServed == ppc = "packed" /\ served >= 0

RealTokens(it, total) ==
    IF padding_side = "right"
    THEN Slice(it.input_ids, 0, total)
    ELSE Slice(it.input_ids, Len(it.input_ids) - total, Len(it.input_ids))

\* C5: packing keeps the input order: the indices inside each group increase,
\* the groups concatenated in group order are 0, 1, ..., n-1, and item i is
\* built from the members of the i-th group, in their order.
C5_PackingPreservesOrder ==
    ppc = "packed" =>
        /\ \A g \in 1..Len(groups) :
              \A k \in 1..(Len(groups[g]) - 1) : groups[g][k] < groups[g][k + 1]
        /\ Flatten(groups) = [k \in 1..Len(data_points) |-> k - 1]
        /\ (served >= 0 /\ item.status = "ok") =>
              RealTokens(item, GroupSum(ServedGroup))
                  = Flatten([k \in 1..Len(ServedGroup) |->
                                At(data_points, ServedGroup[k]).input_ids])

\* the second of two groups is served, and the first has two members
C5_Witness ==
    /\ ItemServed
    /\ item.status = "ok"
    /\ Len(groups) >= 2
    /\ Len(groups[1]) >= 2
    /\ served = 1
    /\ At(data_points, ServedGroup[1]).input_ids # At(data_points, 0).input_ids

\* C6 (as claimed): a group whose lengths sum to more than the capacity is
\* not served: merging it fails with the assertion error.
C6_OversizeGroupFailsByAssertion ==
    (ItemServed /\ GroupSum(ServedGroup) > model_max_length)
        => item.status = "AssertionError"

\* the data points with at least one label that is not the sentinel
HasTrainableLabel(dp) == \E k \in 1..Len(dp.labels) : dp.labels[k] # IGNORE

\* C7: pack_data_points keeps exactly the data points that have a label other
\* than -100, in their original order, and reports as discarded the number of
\* data points it was given minus the number it kept.
C7_InvalidPointsDiscarded ==
    ppc = "packed" =>
        /\ data_points = SelectSeq(original_datapoints, HasTrainableLabel)
        /\ invalid_count = Len(original_datapoints) - Len(data_points)
        /\ invalid_count
              = Cardinality({k \in 1..Len(original_datapoints) :
                                \A j \in 1..Len(original_datapoints[k].labels) :
                                    original_datapoints[k].labels[j] = IGNORE})

\* an all-sentinel data point between two kept ones that differ
C7_Witness ==
    /\ ppc = "packed"
    /\ Len(original_datapoints) = 3
    /\ ~HasTrainableLabel(original_datapoints[2])
    /\ Len(original_datapoints[2].labels) > 0
    /\ Len(data_points) = 2
    /\ data_points[1] # data_points[2]
    /\ invalid_count = 1

\* the segment (1-based) of the served group that mask position p lies in,
\* 0 when p is beyond the segments
RECURSIVE SegmentFrom(_, _, _, _)
SegmentFrom(lens, k, offset, p) ==
    IF k > Len(lens) THEN 0
    ELSE IF p < offset + lens[k] THEN k
    ELSE SegmentFrom(lens, k + 1, offset + lens[k], p)

SegmentOf(p) == SegmentFrom(MemberLengths(ServedGroup), 1, 0, p)

MaskPositions == 0..(model_max_length - 1)

ItemBuilt == ItemServed /\ item.status = "ok"

\* C8: in the mask of an item, a real-token row i attends (0) to column j
\* exactly when j lies in the segment of i and j <= i; every other entry of the
\* row, cross-segment or in a padding column, is the forbid value.
C8_MaskBlockCausal ==
    ItemBuilt =>
        \A i, j \in MaskPositions :
            SegmentOf(i) # 0 =>
                /\ item.attention_mask[<<i, j>>] \in {0, NEG_INF}
                /\ item.attention_mask[<<i, j>>] = 0
                      <=> (SegmentOf(j) = SegmentOf(i) /\ j <= i)

\* three segments, one of them longer than one token, and padding
C8_Witness ==
    /\ ItemBuilt
    /\ Len(ServedGroup) >= 3
    /\ \E k \in 1..Len(ServedGroup) : At(lengths, ServedGroup[k]) >= 2
    /\ GroupSum(ServedGroup) < model_max_length

\* C9 (as claimed): every entry of every padding row is 0.
C9_PaddingRowsFullyOpen ==
    ItemBuilt =>
        \A i, j \in MaskPositions :
            SegmentOf(i) = 0 => item.attention_mask[<<i, j>>] = 0

\* C9 (amended): a padding row is 0 in every real-token column and the forbid
\* value in every padding column.
C9_PaddingRowsOpenOnRealColumns ==
    ItemBuilt =>
        \A i, j \in MaskPositions :
            SegmentOf(i) = 0 =>
                item.attention_mask[<<i, j>>]
                    = IF SegmentOf(j) # 0 THEN 0 ELSE NEG_INF

\* two padding rows below two segments
C9_Witness ==
    /\ ItemBuilt
    /\ Len(ServedGroup) >= 2
    /\ GroupSum(ServedGroup) + 2 <= model_max_length
    /\ item.attention_mask[<<model_max_length - 1, 0>>] = 0
    /\ item.attention_mask[<<model_max_length - 1, model_max_length - 2>>] = NEG_INF

\* a column of the mask no row may attend to
MaskPaddingColumn(p) ==
    \A i \in MaskPositions : item.attention_mask[<<i, p>>] = NEG_INF

\* C10 (as claimed): for both padding sides, the padding columns (and rows) of
\* the mask are at the positions of the padding tokens and padding labels.
C10_MaskPaddingAtTokenPadding ==
    ItemBuilt =>
        \A p \in MaskPositions :
            (SegmentOf(p) = 0 /\ MaskPaddingColumn(p))
                <=> (At(item.input_ids, p) = PadTokenId /\ At(item.labels, p) = IGNORE)

(***************************************************************************)
(* Properties of merge_data_points.                                        *)
(***************************************************************************)
\* the members of the served group, in group order
ServedMembers == [k \in 1..Len(ServedGroup) |-> At(data_points, ServedGroup[k])]

\* the 0-based position in the served item of the first token of member k
MemberStart(k) ==
    LET before == SumSeq(SubSeq(MemberLengths(ServedGroup), 1, k - 1))
        pad == model_max_length - GroupSum(ServedGroup)
    IN  IF padding_side = "right" THEN before ELSE pad + before

C12_LoadedOnlyIfRecordedLengthSuffices ==
    (cpc = "constructed" /\ cache_loaded) => disk.max_length >= model_max_length

\* a constructor of PackedDataset or DirectPackedDataset took its data from
\* the folder
LoadedPacked ==
    /\ cpc = "constructed"
    /\ dataset_class \in {"PackedDataset", "DirectPackedDataset"}
    /\ cache_loaded
    /\ ~rebuilt

\* a constructor of CachedDataset took its data from the folder
LoadedCached ==
    /\ cpc = "constructed"
    /\ dataset_class = "CachedDataset"
    /\ cache_loaded

\* the first n elements of s, all of s when it is shorter
Prefix(s, n) == SubSeq(s, 1, IF n < Len(s) THEN n ELSE Len(s))

\* the persisted records, each array cut to the current max_length
PersistedCut ==
    [k \in 1..Len(disk.inputs) |->
        [input_ids |-> Prefix(disk.inputs[k].input_ids, model_max_length),
         labels |-> Prefix(disk.inputs[k].labels, model_max_length),
         attention_mask |-> Prefix(disk.inputs[k].attention_mask, model_max_length)]]

\* C13 (as claimed): a load restores every persisted array, only cut to the
\* current max_length, and runs nothing else on it.
C13_LoadRestoresEveryRecord ==
    LoadedPacked => data_points = PersistedCut

\* C13 (amended): PackedDataset.load restores the persisted arrays cut to the
\* current max_length, labels included (they are not computed again), and
\* then packs them again: records whose cut labels are all -100 are dropped,
\* and lengths and groups are those of the kept records under the current
\* max_length.  CachedDataset.load restores the records as they are, uncut.
C13_LoadCutsThenPacksAgain ==
    /\ LoadedPacked =>
          /\ original_datapoints = PersistedCut
          /\ data_points = SelectSeq(PersistedCut, HasTrainableLabel)
          /\ lengths = [k \in 1..Len(data_points) |-> Len(data_points[k].input_ids)]
          /\ groups = merge_data_points_by_length(lengths, model_max_length)
    /\ LoadedCached => data_points = disk.inputs

\* a load under a smaller max_length that cuts one record and drops another
C13_Witness ==
    /\ LoadedPacked
    /\ model_max_length < disk.max_length
    /\ Len(disk.inputs) = 2
    /\ Len(data_points) = 1
    /\ data_points[1] # disk.inputs[1]
    /\ data_points[1].labels = Prefix(disk.inputs[1].labels, model_max_length)

\* the data points of the dataset that dumped, each array cut to the current
\* max_length
DumpedCut ==
    [k \in 1..Len(dumped_from.data_points) |->
        [input_ids |-> Prefix(dumped_from.data_points[k].input_ids, model_max_length),
         labels |-> Prefix(dumped_from.data_points[k].labels, model_max_length),
         attention_mask |->
             Prefix(dumped_from.data_points[k].attention_mask, model_max_length)]]

\* C14 (as claimed): a fresh dataset that loads the dump under the same
\* max_length has the data points and groups of the dataset that dumped;
\* under a smaller max_length its arrays are the prefixes of the dumped ones,
\* record by record.
C14_RoundTripKeepsEveryRecord ==
    LoadedPacked =>
        /\ model_max_length = disk.max_length =>
              /\ data_points = dumped_from.data_points
              /\ groups = dumped_from.groups
        /\ model_max_length < disk.max_length => data_points = DumpedCut

\* C14 (amended): under the same max_length the loaded data points and groups
\* are those of the dataset that dumped; under a smaller max_length the
\* loaded data points are, in order, the prefixes of those dumped data points
\* whose cut labels still hold a label other than -100.
C14_RoundTripUpToDroppedRecords ==
    LoadedPacked =>
        /\ model_max_length = disk.max_length =>
              /\ data_points = dumped_from.data_points
              /\ groups = dumped_from.groups
        /\ model_max_length < disk.max_length =>
              data_points = SelectSeq(DumpedCut, HasTrainableLabel)

\* a dump of two different data points in one group, loaded under the same
\* max_length
C14_Witness ==
    /\ LoadedPacked
    /\ model_max_length = disk.max_length
    /\ Len(data_points) = 2
    /\ data_points[1] # data_points[2]
    /\ groups = <<<<0, 1>>>>
    /\ data_points = dumped_from.data_points

(***************************************************************************)
(* Properties of generate_text_stream.                                     *)
(***************************************************************************)
\* the final tuple has been yielded
FinalYielded == gpc \in {"final", "returned", "UnboundLocalError", "abandoned"}
                    /\ increments # <<>>
                    /\ increments[Len(increments)].finish_reason # "None"

\* the generator will yield nothing more
StreamEnded == gpc \in {"returned", "UnboundLocalError", "abandoned"}

\* C15 (as claimed): the final element carries "stop" when a stop token was
\* produced and "length" when max_new_tokens ran out without one.
C15_FinalReasonStopOrLength ==
    FinalYielded =>
        increments[Len(increments)].finish_reason
            = IF reach_stop_token THEN "stop" ELSE "length"

\* the increments yielded with no finish reason
OpenIncrements == {k \in 1..Len(increments) : increments[k].finish_reason = "None"}

\* C16 (as claimed): for every max_new_tokens >= 0 the generator yields at
\* most max_new_tokens increments without a finish reason, then one final
\* element with empty text and a finish reason, and then ends without raising.
C16_IncrementsThenFinalThenNormalEnd ==
    /\ Cardinality(OpenIncrements) <= max_new_tokens
    /\ FinalYielded =>
          /\ OpenIncrements = 1..(Len(increments) - 1)
          /\ increments[Len(increments)].text = <<>>
    /\ gpc # "UnboundLocalError"

\* C17 (as claimed): on every way out of generate_text_stream (stop token,
\* max_new_tokens used up, the consumer stopping before or at the final
\* element) the key/value cache it built has been released.
C17_CacheReleasedOnEveryExit ==
    StreamEnded => past_key_values # "held"

(***************************************************************************)
(* Properties of generate_stream.                                          *)
(***************************************************************************)
\* generate_stream has just been handed an element
Consumed == Len(increments') = Len(increments) + 1

Increment(text) == [text |-> text, finish_reason |-> "None"]

FinalElement(reason) == [text |-> <<>>, finish_reason |-> reason]

ScenarioAIncrements ==
    << Increment(<<>>),
       Increment(<<":", "\n">>),
       Increment(<<"h", "e", "l", "l", "o">>),
       Increment(<<" ", "w", "o", "r", "l", "d">>),
       FinalElement("stop") >>

ScenarioADeltas ==
    << [role |-> "assistant", content |-> Str(<<>>), function_call |-> NoCall,
        finish_reason |-> "None"],
       [role |-> "assistant", content |-> Str(<<"h", "e", "l", "l", "o">>),
        function_call |-> NoCall, finish_reason |-> "None"],
       [role |-> "assistant", content |-> Str(<<" ", "w", "o", "r", "l", "d">>),
        function_call |-> NoCall, finish_reason |-> "None"],
       [role |-> "assistant", content |-> Absent, function_call |-> NoCall,
        finish_reason |-> "stop"] >>

\* C18: while response_type is None, the element after which the left-trimmed
\* accumulated text is exactly ":\n" switches the classifier to text and
\* yields one opening delta (role assistant, content "", finish reason None),
\* and the classifier turns to text in no other way; the increments "",
\* ":\n", "hello", " world", final(stop) yield exactly open-text, "hello",
\* " world", close(stop).
C18_SeparatorOpensText ==
    /\ [][(Consumed /\ response_type = "None")
            => /\ lstrip(cur_text') = <<":", "\n">>
                  => /\ response_type' = "text"
                     /\ deltas' = Append(deltas,
                                     [role |-> "assistant", content |-> Str(<<>>),
                                      function_call |-> NoCall,
                                      finish_reason |-> "None"])
               /\ response_type' = "text" => lstrip(cur_text') = <<":", "\n">>]_vars
    /\ [](increments = ScenarioAIncrements => deltas = ScenarioADeltas)

\* the increments of the example have been consumed and the four deltas
\* yielded
C18_Witness ==
    /\ increments = ScenarioAIncrements
    /\ deltas = ScenarioADeltas
    /\ response_type = "text"

\* all the text of the generation: what has been generated and what is to come
FullText == words \o Flatten(pending)

\* the pairs <<p, c>>: the literal to=functions. at p, a ":" at c, and between
\* them a name of at least one character without a newline
Headers(text) ==
    LET starts == {p \in 1..Len(text) : LiteralAt(text, p)}
        after(p) == (p + Len(FunctionsLiteral) + 1)..Len(text)
    IN  {pc \in UNION {{<<p, c>> : c \in after(p)} : p \in starts} :
            /\ text[pc[2]] = ":"
            /\ \A q \in (pc[1] + Len(FunctionsLiteral))..(pc[2] - 1) :
                  text[q] # "\n"}

\* the name of the first header of the text: leftmost, and ended by the first
\* ":" that can end it
FirstHeaderName(text) ==
    LET first == CHOOSE pc \in Headers(text) :
                     \A other \in Headers(text) :
                         \/ pc[1] < other[1]
                         \/ pc[1] = other[1] /\ pc[2] <= other[2]
    IN  SubSeq(text, first[1] + Len(FunctionsLiteral), first[2] - 1)

\* C19: while response_type is None and the left-trimmed text is not ":\n",
\* the element after which the trimmed accumulated text contains
\* to=functions.<name>: switches the classifier to function, and it turns to
\* function in no other way; func_name is then the whole trimmed name as it
\* stands in the complete generated text, however the text was split, and
\* exactly one opening delta with that name, arguments "" and finish reason
\* None is yielded.
C19_HeaderOpensFunctionWithWholeName ==
    [][(Consumed /\ response_type = "None" /\ lstrip(cur_text') # <<":", "\n">>)
         => /\ Headers(strip(cur_text')) # {}
               => /\ response_type' = "function"
                  /\ func_name' = strip(FirstHeaderName(FullText'))
                  /\ deltas' = Append(deltas,
                                  [role |-> "assistant", content |-> NoneValue,
                                   function_call |->
                                       [present |-> TRUE,
                                        name |-> strip(FirstHeaderName(FullText')),
                                        arguments |-> <<>>],
                                   finish_reason |-> "None"])
            /\ response_type' = "function" => Headers(strip(cur_text')) # {}]_vars

\* a function call opened with a name that came in two increments
C19_Witness ==
    /\ response_type = "function"
    /\ Len(deltas) = 1
    /\ func_name = <<"g", "e", "t", "_", "w", "e", "a", "t", "h", "e", "r">>
    /\ \E k \in 1..Len(increments) : increments[k].text = <<"g", "e", "t">>
    /\ \E k \in 1..Len(increments) :
          increments[k].text = <<"_", "w", "e", "a", "t", "h", "e", "r">>

\* the payloads of the function_call deltas yielded so far, concatenated
ArgumentsYielded ==
    Flatten([k \in 1..Len(deltas) |->
                IF deltas[k].function_call.present
                THEN deltas[k].function_call.arguments
                ELSE <<>>])

\* the text after the first header to=functions.<name>: and the newline that
\* follows it
ArgumentsText(text) ==
    LET first == CHOOSE pc \in Headers(text) :
                     \A other \in Headers(text) :
                         \/ pc[1] < other[1]
                         \/ pc[1] = other[1] /\ pc[2] <= other[2]
        rest == SubSeq(text, first[2] + 1, Len(text))
    IN  IF rest # <<>> /\ Head(rest) = "\n" THEN Tail(rest) ELSE rest

\* C20 (as claimed): once a function call has been closed, the payloads of
\* its arguments deltas concatenated are the generated text that follows the
\* header and its newline, for every split of the text into increments.
C20_ArgumentsCarryWholeText ==
    (response_type = "function" /\ FinalYielded)
        => ArgumentsYielded = ArgumentsText(cur_text)

\* the element generate_stream has just been handed
LastIncrement == increments[Len(increments)]

\* C21: with response_type function, the element that carries a finish reason
\* yields one closing delta whose finish reason is "function_call", whatever
\* reason generate_text_stream gave, and every element without a finish
\* reason yields one arguments delta carrying that element's text and the
\* captured name.
C21_FunctionCloseForcedArgumentsVerbatim ==
    [][(Consumed /\ response_type = "function")
         => LET element == increments'[Len(increments')]
            IN  /\ Len(deltas') = Len(deltas) + 1
                /\ SubSeq(deltas', 1, Len(deltas)) = deltas
                /\ element.finish_reason # "None"
                      => deltas'[Len(deltas')].finish_reason = "function_call"
                /\ element.finish_reason = "None"
                      => /\ deltas'[Len(deltas')].finish_reason = "None"
                         /\ deltas'[Len(deltas')].function_call
                               = [present |-> TRUE, name |-> func_name,
                                  arguments |-> element.text]]_vars

\* a function call with an arguments delta, closed when max_new_tokens ran out
C21_Witness ==
    /\ response_type = "function"
    /\ FinalYielded
    /\ ~reach_stop_token
    /\ LastIncrement.finish_reason # "function_call"
    /\ deltas[Len(deltas)].finish_reason = "function_call"
    /\ Len(deltas) >= 3
    /\ deltas[2].function_call.arguments # <<>>
    /\ deltas[2].function_call.name = func_name

\* C22: with response_type text, every element without a finish reason
\* yields one content delta carrying exactly that element's text, and the
\* element with a finish reason yields one closing delta with that finish
\* reason and no content key.
C22_TextDeltasVerbatimCloseKeepsReason ==
    [][(Consumed /\ response_type = "text")
         => LET element == increments'[Len(increments')]
            IN  /\ Len(deltas') = Len(deltas) + 1
                /\ SubSeq(deltas', 1, Len(deltas)) = deltas
                /\ deltas'[Len(deltas')].finish_reason = element.finish_reason
                /\ deltas'[Len(deltas')].function_call.present = FALSE
                /\ deltas'[Len(deltas')].content
                      = IF element.finish_reason = "None"
                        THEN [tag |-> "str", val |-> element.text]
                        ELSE [tag |-> "absent", val |-> <<>>]]_vars

\* a text session with one content delta that was closed when max_new_tokens
\* ran out
C22_Witness ==
    /\ response_type = "text"
    /\ FinalYielded
    /\ ~reach_stop_token
    /\ Len(deltas) = 3
    /\ deltas[2].content.tag = "str"
    /\ deltas[2].content.val # <<>>
    /\ deltas[3].content.tag = "absent"
    /\ deltas[3].finish_reason = LastIncrement.finish_reason

\* C23 (as claimed): a session that is still in response_type None when the
\* final element has been consumed has yielded no content or arguments delta
\* but has yielded the closing delta with the finish reason, and has not
\* raised.
C23_UndeterminedStillCloses ==
    (FinalYielded /\ response_type = "None")
        => /\ Len(deltas) = 1
           /\ deltas[1].finish_reason = LastIncrement.finish_reason
           /\ deltas[1].content.tag = "absent"
           /\ deltas[1].function_call.present = FALSE
           /\ gpc # "UnboundLocalError"

\* C24 (as claimed): every response generate_stream yields has a
\* finish_reason that is None, "stop", "length" or "function_call", and only
\* the last response of a session has one that is not None.
C24_FinishReasonInProtocol ==
    \A k \in 1..Len(deltas) :
        /\ deltas[k].finish_reason \in {"None", "stop", "length", "function_call"}
        /\ deltas[k].finish_reason # "None" => k = Len(deltas)

(***************************************************************************)
(* Properties of merge_data_points_by_length.                              *)
(***************************************************************************)
IsNonEmpty(group) == group # <<>>

\* the group (1-based) that holds index x, 0 when none does
GroupOf(x) ==
    IF \E g \in 1..Len(groups) : \E k \in 1..Len(groups[g]) : groups[g][k] = x
    THEN CHOOSE g \in 1..Len(groups) : \E k \in 1..Len(groups[g]) : groups[g][k] = x
    ELSE 0

\* the running sum when index x is looked at: the lengths of the indices
\* below x that are in the group of x - 1
RunningSum(x) ==
    IF x = 0 THEN 0
    ELSE LET group == groups[GroupOf(x - 1)]
         IN  SumSeq([k \in 1..Len(group) |->
                        IF group[k] < x THEN At(lengths, group[k]) ELSE 0])

\* C25: the packer is the greedy single pass: the indices come out in input
\* order, and index x is in the group of x - 1 exactly when the running sum of
\* that group plus its length is at most the capacity, else it starts the
\* next group (index 0 meets the empty first group with running sum 0);
\* lengths [5,5,5,7] with capacity 10 give [[0,1],[2],[3]].
C25_GreedySinglePass ==
    ppc = "merged" =>
        /\ Flatten(groups) = [k \in 1..Len(lengths) |-> k - 1]
        /\ Len(lengths) > 0 =>
              (GroupOf(0) = 1 <=> At(lengths, 0) <= model_max_length)
        /\ \A x \in 1..(Len(lengths) - 1) :
              /\ GroupOf(x) = GroupOf(x - 1)
                    <=> RunningSum(x) + At(lengths, x) <= model_max_length
              /\ GroupOf(x) # GroupOf(x - 1) => GroupOf(x) = GroupOf(x - 1) + 1
        /\ (lengths = <<5, 5, 5, 7>> /\ model_max_length = 10)
              => groups = << <<0, 1>>, <<2>>, <<3>> >>

\* the example: [5,5,5,7] packed under capacity 10
C25_Witness ==
    /\ ppc = "merged"
    /\ lengths = <<5, 5, 5, 7>>
    /\ model_max_length = 10
    /\ groups = << <<0, 1>>, <<2>>, <<3>> >>

(***************************************************************************)
(* Termination of the scan of get_masked_labels.                           *)
(***************************************************************************)
\* C26: every iteration after which the loop goes on moves index strictly
\* forward: by exactly one where no prefix pattern lies at index, and, where
\* one does, to the first closing marker after the pattern; index never
\* passes the length of the sequence, so the loop ends after at most that
\* many iterations.
C26_ScanIndexStrictlyIncreases ==
    /\ [][(mpc = "scan" /\ mpc' = "scan")
            => /\ index' > index
               /\ index' <= Len(input_token_ids)
               /\ ~PrefixOccursAt(input_token_ids, index) => index' = index + 1
               /\ PrefixOccursAt(input_token_ids, index)
                     => /\ index' >= index + 2
                        /\ ClosesAssistantTurn(At(input_token_ids, index'))
                        /\ \A p \in (index + 2)..(index' - 1) :
                              ~ClosesAssistantTurn(At(input_token_ids, p))]_vars
    /\ [](mpc = "scan" => index <= Len(input_token_ids))

\* the scan stands on the closing marker of a span it reached by a jump of
\* more than one, after a first step of one
C26_Witness ==
    /\ mpc = "scan"
    /\ ~PrefixOccursAt(input_token_ids, 0)
    /\ PrefixOccursAt(input_token_ids, 1)
    /\ index >= 4
    /\ index < Len(input_token_ids)
    /\ ClosesAssistantTurn(At(input_token_ids, index))
    /\ \A p \in 3..(index - 1) : ~ClosesAssistantTurn(At(input_token_ids, p))
    /\ At(labels, index) # IGNORE

\* C27: merge_data_points_by_length returns only non-empty groups, and every
\* input index 0..n-1 appears in exactly one group.
C27_GroupsNonEmptyAndPartition ==
    ppc = "merged"
       => /\ \A g \in 1..Len(groups) : IsNonEmpty(groups[g])
          /\ \A x \in 0..(Len(lengths) - 1) :
                Cardinality({<<g, k>> \in (1..Len(groups)) \X (1..MaxItems + 1) :
                               k <= Len(groups[g]) /\ groups[g][k] = x}) = 1
          /\ Len(Flatten(groups)) = Len(lengths)

(***************************************************************************)
(* Masking and truncation.                                                 *)
(***************************************************************************)
\* C28: for every token sequence t and every cut k, masking the first k
\* tokens of t gives the first k labels of masking t, so labels cut at cache
\* load time are the labels of the cut tokens.
C28_MaskingCommutesWithTruncation ==
    mpc = "returned"
       => \A k \in 0..Len(input_token_ids) :
             get_masked_labels(Slice(input_token_ids, 0, k)) = Slice(labels, 0, k)

\* a returned scan of a sequence whose first span is closed, with a cut that
\* falls inside that span, and a second pattern that a cut splits in two
C28_Witness ==
    /\ mpc = "returned"
    /\ PrefixOccursAt(input_token_ids, 0)
    /\ Len(input_token_ids) >= 6
    /\ At(input_token_ids, 2) = TextTok
    /\ ClosesAssistantTurn(At(input_token_ids, 3))
    /\ PrefixOccursAt(input_token_ids, 4)
    /\ At(labels, 2) = TextTok
    /\ At(labels, 3) = At(input_token_ids, 3)
    /\ At(labels, 4) = IGNORE

(***************************************************************************)
(* The classifier of generate_stream as a state machine.                   *)
(***************************************************************************)
\* a delta that opens a reply: role assistant, no finish reason, and either
\* content "" without a function call, or content None with a function name
\* and arguments ""
IsOpening(d) ==
    /\ d.role = "assistant"
    /\ d.finish_reason = "None"
    /\ \/ d.content = [tag |-> "str", val |-> <<>>] /\ ~d.function_call.present
       \/ /\ d.content = [tag |-> "None", val |-> <<>>]
          /\ d.function_call.present
          /\ d.function_call.arguments = <<>>

\* C29: response_type changes only from None, to text or to function, and
\* the step that changes it yields the one opening delta as the first delta
\* of the session; once it is not None, response_type and func_name stay as
\* they are; while it is None nothing is yielded, so every content, arguments
\* or closing delta comes after that opening delta.
C29_ClassifierMonotoneOneOpening ==
    /\ [][/\ response_type # "None"
                => /\ response_type' = response_type
                   /\ func_name' = func_name
                   /\ deltas' # deltas
                         => /\ Len(deltas') = Len(deltas) + 1
                            /\ SubSeq(deltas', 1, Len(deltas)) = deltas
                            /\ deltas'[Len(deltas')].content.tag # "None"
          /\ response_type' # response_type
                => /\ response_type = "None"
                   /\ response_type' \in {"text", "function"}
                   /\ deltas = <<>>
                   /\ Len(deltas') = 1
                   /\ IsOpening(deltas'[1])
                   /\ deltas'[1].function_call.present = (response_type' = "function")
          /\ (response_type = "None" /\ response_type' = "None")
                => /\ deltas' = <<>>
                   /\ func_name' = <<>>]_vars
    /\ [](/\ response_type \in {"None", "text", "function"}
          /\ response_type = "None" => deltas = <<>>
          /\ response_type # "None" => Len(deltas) >= 1 /\ IsOpening(deltas[1])
          /\ response_type = "function"
                => \A j \in 2..Len(deltas) : ~IsOpening(deltas[j]))

\* a function session that yielded its opening delta, two arguments deltas
\* and its closing delta after a stop token
C29_Witness ==
    /\ response_type = "function"
    /\ FinalYielded
    /\ reach_stop_token
    /\ Len(deltas) = 4
    /\ IsOpening(deltas[1])
    /\ deltas[1].function_call.name = func_name
    /\ deltas[2].function_call.present
    /\ deltas[3].function_call.present
    /\ deltas[4].finish_reason = "function_call"

(***************************************************************************)
(* The text a text session passes on.                                      *)
(***************************************************************************)
\* the number of whitespace characters the text begins with
LeadingSpaces(text) ==
    Cardinality({n \in 1..Len(text) : \A q \in 1..n : text[q] \in {" ", "\n"}})

\* what follows the first ":" of the text and the newline after it
AfterSeparator(text) == SubSeq(text, LeadingSpaces(text) + 3, Len(text))

\* the texts of the content deltas, in the order they were yielded
RECURSIVE ContentOf(_)
ContentOf(ds) ==
    IF ds = <<>> THEN <<>>
    ELSE (IF Head(ds).content.tag = "str" THEN Head(ds).content.val ELSE <<>>)
            \o ContentOf(Tail(ds))

\* C30: in a session with response_type text, the generated text is leading
\* whitespace, ":", a newline, and then exactly the concatenation of the
\* content deltas yielded so far, whatever the split into increments; at the
\* end of the session that is all the text generated after the separator.
C30_ContentIsTextAfterSeparator ==
    response_type = "text"
       => /\ cur_text = words
          /\ Len(words) >= LeadingSpaces(words) + 2
          /\ words[LeadingSpaces(words) + 1] = ":"
          /\ words[LeadingSpaces(words) + 2] = "\n"
          /\ ContentOf(deltas) = AfterSeparator(words)

\* a closed text session whose text began with a space and whose content
\* came in more than one delta, one of them for an empty increment
C30_Witness ==
    /\ response_type = "text"
    /\ FinalYielded
    /\ LeadingSpaces(words) = 1
    /\ ContentOf(deltas) = <<"h", "e", "l", "l", "o">>
    /\ Len(deltas) >= 4
    /\ \E j \in 2..(Len(deltas) - 1) : deltas[j].content.val = <<>>

(***************************************************************************)
(* Trainable positions of a served item.                                   *)
(***************************************************************************)
\* C31: in a dataset constructed from prompts (each encoded to at most
\* model_max_length tokens and labelled by get_masked_labels), every group
\* has a member, every __getitem__ returns an item, and the item has a label
\* other than -100, although the first label of each member is set to -100.
C31_ServedItemHasTrainableLabel ==
    /\ ppc = "packed" => \A g \in 1..Len(groups) : groups[g] # <<>>
    /\ ItemServed
          => /\ item.status = "ok"
             /\ \E p \in 1..Len(item.labels) : item.labels[p] # IGNORE
             /\ \A k \in 1..Len(ServedGroup) :
                   /\ At(ServedMembers[k].labels, 0) = IGNORE
                   /\ \E j \in 1..(Len(ServedMembers[k].labels) - 1) :
                         /\ At(ServedMembers[k].labels, j) # IGNORE
                         /\ At(item.labels, MemberStart(k) + j)
                               = At(ServedMembers[k].labels, j)

\* an item of two members served by a dataset that dropped an all-sentinel
\* data point, one member with a single trainable label
C31_Witness ==
    /\ ItemBuilt
    /\ invalid_count >= 1
    /\ Len(ServedGroup) = 2
    /\ Cardinality({j \in 1..Len(ServedMembers[1].labels) :
                       ServedMembers[1].labels[j] # IGNORE}) = 1
    /\ \E p \in 1..Len(item.labels) : item.labels[p] # IGNORE

(***************************************************************************)
(* What constructing a dataset writes.                                     *)
(***************************************************************************)
\* C32: constructing a dataset changes the cache folder only when the class
\* is DirectPackedDataset, the folder did not exist and the data points were
\* encoded from raw_data; the folder then holds those data points and the
\* current max_length.  A folder that exists, loaded, ignored or rejected for
\* its max_length, is left as it was.
C32_CacheWrittenOnlyWhenFolderAbsent ==
    [][/\ disk.exists => disk' = disk
       /\ disk' # disk
             => /\ dataset_class = "DirectPackedDataset"
                /\ cpc = "open"
                /\ cpc' = "constructed"
                /\ rebuilt'
                /\ ~cache_loaded'
                /\ disk' = [exists |-> TRUE, inputs |-> data_points',
                            max_length |-> model_max_length]]_vars

\* a DirectPackedDataset rebuilt from raw_data over a folder whose recorded
\* max_length was too small: the folder still holds the shorter records
C32_Witness ==
    /\ cpc = "constructed"
    /\ dataset_class = "DirectPackedDataset"
    /\ ~ignore_cached
    /\ ~cache_loaded
    /\ rebuilt
    /\ disk.exists
    /\ disk.max_length < model_max_length
    /\ disk.inputs # <<>>
    /\ data_points # <<>>
    /\ data_points # disk.inputs

====
